---- MODULE Spec2Model ----
(***************************************************************************)
(* Multi-contig alignment engine: contig registration (add_contig), the    *)
(* column-synchronised DP of MultiContigAligner::custom, the per-contig    *)
(* jump selection and the traceback walker.                                *)
(*                                                                         *)
(* MultiContigAligner and traceback are translated from                    *)
(*   src/src/lib/align/aligners/multi_contig_aligner.rs                    *)
(*   src/src/lib/align/traceback/mod.rs                                    *)
(* SingleContigAligner (init_matrices, init_column, get_jump_info,         *)
(* fill_column, fill_last_column_and_end_clipping), Scoring and the        *)
(* constant MIN_SCORE live in files that are not part of the sources at    *)
(* hand; they are modelled from the design document (sections 3 and 4.2).  *)
(***************************************************************************)
EXTENDS Integers, Sequences, FiniteSets, TLC

VARIABLES
    contigs,          \* Vec<ContigAligner>: one record per registered contig
    name_to_forward,  \* HashMap<String, usize> of the forward strand
    name_to_revcomp,  \* HashMap<String, usize> of the reverse strand
    add_result,       \* outcome of the last add_contig call
    pc,               \* position inside custom / traceback
    y,                \* the query of the running custom call
    j,                \* the column of the running custom call
    inter_contig_jump_infos, \* custom: the pre-computed inter-contig infos
    best_jump_infos,  \* custom: the jump chosen for each contig
    jump_log,         \* the candidates that led to best_jump_infos
    tbw,              \* the local variables of traceback()
    alignment,        \* the Alignment returned by custom
    calls             \* the number of custom calls made on this aligner

vars == <<contigs, name_to_forward, name_to_revcomp, add_result, pc, y, j,
          inter_contig_jump_infos, best_jump_infos, jump_log, tbw, alignment,
          calls>>

-----------------------------------------------------------------------------
(* Bounds of the model *)

\* largest number of contigs registered
MaxContigs == 3
\* longest contig sequence
MaxSeqLen == 2
\* longest query
MaxQueryLen == 2
\* largest total length of the registered contigs whose DP is run
MaxTotalLen == 4
\* largest number of iterations of the traceback loop that are followed
MaxSteps == 12
\* the length of a block of the sequences of the jump scenario
JumpBlock == 3
MaxCalls == 2
MaxReuseContigs == 2

\* the bases of contigs and queries
Bases == {1, 2}
\* contig names
Names == {"chr1", "chr2"}

-----------------------------------------------------------------------------
(* Program constants *)

MIN_SCORE == -858993459

TB_START == 0
TB_INS == 1
TB_DEL == 2
TB_SUBST == 3
TB_MATCH == 4
TB_XCLIP_PREFIX == 5
TB_XCLIP_SUFFIX == 6
TB_YCLIP_PREFIX == 7
TB_YCLIP_SUFFIX == 8
TB_XJUMP == 9
TB_MAX == 9

Max(a, b) == IF a > b THEN a ELSE b

\* all sequences over Bases of length lo..hi
SeqsOf(lo, hi) == UNION {[1..k -> Bases] : k \in lo..hi}

-----------------------------------------------------------------------------
(* Scoring *)

\* MatchParams::score: match score for equal bytes, mismatch score otherwise
\* a variant of the match function that scores a match 0
match_fn_zero(sc, a, b) == IF a = b THEN 0 ELSE sc.mismatch_score

match_fn(sc, a, b) == IF a = b THEN sc.match_score ELSE sc.mismatch_score

MkScoring(mm, go, ge, clip, js, jf, ji) ==
    [match_score |-> 1, mismatch_score |-> mm, gap_open |-> go, gap_extend |-> ge,
     xclip_prefix |-> clip, xclip_suffix |-> clip,
     yclip_prefix |-> clip, yclip_suffix |-> clip,
     jump_score_same_contig_and_strand |-> js,
     jump_score_same_contig_opposite_strand |-> jf,
     jump_score_inter_contig |-> ji]

\* tests::scoring_global_custom
scoring_global_custom(mm, go, ge, jump) == MkScoring(mm, go, ge, MIN_SCORE, jump, jump, jump)

\* tests::scoring_local_custom
scoring_local_custom(mm, go, ge, jump) == MkScoring(mm, go, ge, 0, jump, jump, jump)

\* Scoring::set_jump_scores
set_jump_scores(sc, js, jf, ji) ==
    [sc EXCEPT !.jump_score_same_contig_and_strand = js,
               !.jump_score_same_contig_opposite_strand = jf,
               !.jump_score_inter_contig = ji]

-----------------------------------------------------------------------------
(* Traceback cells and the traceback matrix *)

\* Cell::default followed by set_all(TB_START, 0) and set_s_all(TB_START, 0, 0, 0)
StartCell ==
    [i_tb |-> TB_START, i_len |-> 0, d_tb |-> TB_START, d_len |-> 0,
     s_tb |-> TB_START, s_len |-> 0, s_idx |-> 0, s_from |-> 0]

set_i(c, t, l) == [c EXCEPT !.i_tb = t, !.i_len = l]
set_d(c, t, l) == [c EXCEPT !.d_tb = t, !.d_len = l]
set_s(c, t, l) == [c EXCEPT !.s_tb = t, !.s_len = l]
set_s_all(c, t, l, idx, from) ==
    [c EXCEPT !.s_tb = t, !.s_len = l, !.s_idx = idx, !.s_from = from]
get_s(c) == [tb |-> c.s_tb, len |-> c.s_len, idx |-> c.s_idx, from |-> c.s_from]

\* a variant of Traceback::init that leaves the cells without a valid tag
TracebackInitUntagged(m, n) ==
    [rows |-> m + 1, cols |-> n + 1,
     matrix |-> [i \in 0..m |-> [jj \in 0..n |->
                    [StartCell EXCEPT !.i_tb = TB_MAX + 1, !.d_tb = TB_MAX + 1,
                                      !.s_tb = TB_MAX + 1]]]]

\* Traceback::init: every cell of an (m+1) x (n+1) matrix is START
TracebackInit(m, n) ==
    [rows |-> m + 1, cols |-> n + 1,
     matrix |-> [i \in 0..m |-> [jj \in 0..n |-> StartCell]]]

\* Traceback::get
TbGet(t, i, jj) == t.matrix[i][jj]

\* Traceback::set
TbSet(t, i, jj, v) == [t EXCEPT !.matrix[i][jj] = v]

\* debug_assert!(i < self.rows); debug_assert!(j < self.cols)
TbInRange(t, i, jj) == i >= 0 /\ i < t.rows /\ jj >= 0 /\ jj < t.cols

-----------------------------------------------------------------------------
(* Contig registration *)

\* ContigAligner::new: with_capacity_and_scoring, set_contig_idx, set_circular
ContigAlignerNew(name, is_forward, scoring, seq, contig_idx, circular) ==
    [name |-> name, is_forward |-> is_forward, seq |-> seq,
     contig_idx |-> contig_idx, circular |-> circular, scoring |-> scoring,
     I |-> <<>>, D |-> <<>>, S |-> <<>>, Sn |-> <<>>, Lx |-> <<>>, Ly |-> <<>>,
     traceback |-> [rows |-> 1, cols |-> 1, matrix |-> <<>>]]

\* ContigAligner::len
ContigLen(c) == Len(c.seq)

-----------------------------------------------------------------------------
(* SingleContigAligner: the per-contig DP (design document, section 4.2).    *)
(* Score columns are S[k][i], I[k][i], D[k][i] for k in 0..1 and i in 0..m.  *)

\* one row of the first column (j = 0): global / clip initial conditions
RECURSIVE InitMatricesRows(_, _, _, _, _)
InitMatricesRows(a, i, m, n, sc) ==
    IF i > m THEN a
    ELSE
      LET i_score == sc.gap_open + sc.gap_extend * i
          c_score == sc.xclip_prefix + sc.gap_open + sc.gap_extend
          Ival == IF i = 1 THEN sc.gap_open + sc.gap_extend
                  ELSE IF i_score > c_score THEN i_score ELSE c_score
          t0 == IF i = 1 THEN set_i(StartCell, TB_START, 1)
                ELSE IF i_score > c_score THEN set_i(StartCell, TB_INS, i)
                ELSE set_i(StartCell, TB_XCLIP_PREFIX, 1)
          \* all of x[..i] inserted, or clipped
          S1 == Ival
          t2 == set_s_all(t0, TB_INS, t0.i_len, a.idx, i - 1)
          S2 == IF sc.xclip_prefix > S1 THEN sc.xclip_prefix ELSE S1
          t3 == IF sc.xclip_prefix > S1
                THEN set_s_all(t2, TB_XCLIP_PREFIX, 0, a.idx, 0) ELSE t2
          \* row m: the best suffix clip of x after one of the rows above
          suffix == i = m /\ a.S[m] > S2
          S3 == IF suffix THEN a.S[m] ELSE S2
          t4 == IF suffix
                THEN set_s_all(t3, TB_XCLIP_SUFFIX,
                               a.tb[m - a.Lx0][0].s_len, a.idx, m - a.Lx0)
                ELSE t3
          clipx == i # m /\ S3 + sc.xclip_suffix > a.S[m]
          Sm == IF clipx THEN S3 + sc.xclip_suffix ELSE IF i = m THEN S3 ELSE a.S[m]
          clipy == S3 + sc.yclip_suffix > a.Sn[i]
      IN InitMatricesRows(
            [a EXCEPT !.I = [@ EXCEPT ![i] = Ival],
                      !.S = [[@ EXCEPT ![i] = S3] EXCEPT ![m] = Sm],
                      !.Lx0 = IF clipx THEN m - i ELSE IF i = m /\ ~suffix THEN 0 ELSE @,
                      !.Sn = [@ EXCEPT ![i] = IF clipy THEN S3 + sc.yclip_suffix ELSE @],
                      !.Ly = [@ EXCEPT ![i] = IF clipy THEN n ELSE @],
                      !.tb = [@ EXCEPT ![i][0] = t4]],
            i + 1, m, n, sc)

\* SingleContigAligner::init_matrices: reset the traceback matrix and the score
\* buffers, then fill the first column
InitMatrices(c, m, n) ==
    LET sc == c.scoring
        a0 == [I |-> [i \in 0..m |-> MIN_SCORE],
               S |-> [i \in 0..m |-> IF i = 0 THEN 0 ELSE MIN_SCORE],
               Lx0 |-> 0,
               Sn |-> [i \in 0..m |-> IF i = 0 THEN sc.yclip_suffix ELSE MIN_SCORE],
               Ly |-> [i \in 0..m |-> IF i = 0 THEN n ELSE 0],
               tb |-> TracebackInit(m, n).matrix,
               idx |-> c.contig_idx]
        a == InitMatricesRows(a0, 1, m, n, sc)
    IN [c EXCEPT !.I = [k \in 0..1 |-> a.I],
                 !.D = [k \in 0..1 |-> [i \in 0..m |-> MIN_SCORE]],
                 !.S = [k \in 0..1 |-> a.S],
                 !.Sn = a.Sn,
                 !.Lx = [jj \in 0..n |-> IF jj = 0 THEN a.Lx0 ELSE 0],
                 !.Ly = a.Ly,
                 !.traceback = [rows |-> m + 1, cols |-> n + 1, matrix |-> a.tb]]

\* SingleContigAligner::init_column: row 0 of column jj (a prefix of the query
\* deleted or clipped), and the reset of the rest of the column
InitColumn(c, jj, curr, m, n) ==
    LET sc == c.scoring
        d_score == sc.gap_open + sc.gap_extend * jj
        c_score == sc.yclip_prefix + sc.gap_open + sc.gap_extend
        Dval == IF jj = 1 THEN sc.gap_open + sc.gap_extend
                ELSE IF d_score > c_score THEN d_score ELSE c_score
        t0 == IF jj = 1 THEN set_d(StartCell, TB_START, 1)
              ELSE IF d_score > c_score THEN set_d(StartCell, TB_DEL, jj)
              ELSE set_d(StartCell, TB_YCLIP_PREFIX, 1)
        S1 == IF Dval > sc.yclip_prefix THEN Dval ELSE sc.yclip_prefix
        t1 == IF Dval > sc.yclip_prefix
              THEN set_s_all(t0, TB_DEL, t0.d_len, c.contig_idx, 0)
              ELSE set_s_all(t0, TB_YCLIP_PREFIX, 0, c.contig_idx, 0)
        endclip == jj = n /\ c.Sn[0] > S1
        S2 == IF endclip THEN c.Sn[0] ELSE S1
        t2 == IF endclip
              THEN set_s_all(t1, TB_YCLIP_SUFFIX,
                             TbGet(c.traceback, 0, jj - c.Ly[0]).s_len, c.contig_idx, 0)
              ELSE t1
        track == ~endclip /\ S1 + sc.yclip_suffix > c.Sn[0]
    IN [c EXCEPT !.I[curr] = [i \in 0..m |-> MIN_SCORE],
                 !.D[curr] = [i \in 0..m |-> IF i = 0 THEN Dval ELSE MIN_SCORE],
                 !.S[curr] = [i \in 0..m |-> IF i = 0 THEN S2 ELSE MIN_SCORE],
                 !.Sn[0] = IF track THEN S1 + sc.yclip_suffix ELSE @,
                 !.Ly[0] = IF track THEN n - jj ELSE @,
                 !.traceback = TbSet(@, 0, jj, t2)]

\* (score, len) of a is lexicographically greater than that of b
BetterInfo(a, b) == a.score > b.score \/ (a.score = b.score /\ a.len > b.len)

\* the donor of row i of column jj under the given jump penalty
DonorInfo(c, i, jj, jump_penalty) ==
    [score |-> c.S[jj % 2][i] + jump_penalty,
     len |-> TbGet(c.traceback, i, jj).s_len,
     idx |-> c.contig_idx,
     from |-> i]

RECURSIVE BestDonor(_, _, _, _, _, _)
BestDonor(c, i, m, jj, jump_penalty, best) ==
    IF i > m THEN best
    ELSE LET cand == DonorInfo(c, i, jj, jump_penalty)
         IN BestDonor(c, i + 1, m, jj, jump_penalty,
                      IF BetterInfo(cand, best) THEN cand ELSE best)

\* SingleContigAligner::get_jump_info: the best donor row of column jj,
\* by (score desc, len desc)
get_jump_info(c, m, jj, jump_penalty) ==
    BestDonor(c, 1, m, jj, jump_penalty, DonorInfo(c, 0, jj, jump_penalty))

\* one row of fill_column: the I, D and S layers of cell (i, jj)
RECURSIVE FillColumnRows(_, _, _, _, _, _, _, _, _)
FillColumnRows(a, c, yq, i, m, n, jj, prev, jump) ==
    IF i > m THEN a
    ELSE
      LET sc == c.scoring
          p == c.seq[i]
          q == yq[jj]
          me == c.contig_idx
          \* I layer: max(S[prev][i] + gap_open + gap_extend, I[prev][i] + gap_extend)
          i_ext == c.I[prev][i] + sc.gap_extend
          i_open == c.S[prev][i] + sc.gap_open + sc.gap_extend
          best_i == Max(i_ext, i_open)
          t0 == IF i_ext > i_open
                THEN set_i(StartCell, TB_INS, a.tb[i][jj - 1].i_len + 1)
                ELSE set_i(StartCell, a.tb[i][jj - 1].s_tb, a.tb[i][jj - 1].s_len + 1)
          \* D layer: max(S[curr][i-1] + gap_open + gap_extend, D[curr][i-1] + gap_extend)
          d_ext == a.D[i - 1] + sc.gap_extend
          d_open == a.S[i - 1] + sc.gap_open + sc.gap_extend
          best_d == Max(d_ext, d_open)
          t1 == IF d_ext > d_open
                THEN set_d(t0, TB_DEL, a.tb[i - 1][jj].d_len + 1)
                ELSE set_d(t0, a.tb[i - 1][jj].s_tb, a.tb[i - 1][jj].s_len + 1)
          \* S layer
          mtag == IF p = q THEN TB_MATCH ELSE TB_SUBST
          \* a. diagonal
          m_score == c.S[prev][i - 1] + match_fn(sc, p, q)
          s1 == m_score
          r1 == set_s_all(t1, mtag, a.tb[i - 1][jj - 1].s_len + 1, me, i - 1)
          \* b. insertion, deletion
          s2 == Max(best_i, s1)
          r2 == IF best_i > s1 THEN set_s_all(r1, TB_INS, t1.i_len, me, i) ELSE r1
          s3 == Max(best_d, s2)
          r3 == IF best_d > s2 THEN set_s_all(r2, TB_DEL, t1.d_len, me, i) ELSE r2
          \* c. jump from (jump.idx, jump.from), then diagonal
          j_score == jump.score + match_fn(sc, p, q)
          s4 == Max(j_score, s3)
          r4 == IF j_score > s3
                THEN set_s_all(r3, mtag, jump.len + 1, jump.idx, jump.from)
                ELSE r3
          \* d. start candidates
          xclip_score == sc.xclip_prefix
                         + Max(sc.yclip_prefix, sc.gap_open + sc.gap_extend * jj)
          s5 == Max(xclip_score, s4)
          r5 == IF xclip_score > s4 THEN set_s_all(r4, TB_XCLIP_PREFIX, 0, me, i) ELSE r4
          yclip_score == sc.yclip_prefix + sc.gap_open + sc.gap_extend * i
          s6 == Max(yclip_score, s5)
          r6 == IF yclip_score > s5 THEN set_s_all(r5, TB_YCLIP_PREFIX, 0, me, i) ELSE r5
          \* row m: the best suffix clip of x after one of the rows above
          suffix == i = m /\ a.S[m] > s6
          s7 == IF suffix THEN a.S[m] ELSE s6
          r7 == IF suffix
                THEN set_s_all(r6, TB_XCLIP_SUFFIX,
                               a.tb[m - a.Lxj][jj].s_len, me, m - a.Lxj)
                ELSE r6
          \* track the score of a suffix clip of x or of y after this cell
          clipx == i # m /\ s7 + sc.xclip_suffix > a.S[m]
          clipy == s7 + sc.yclip_suffix > a.Sn[i]
      IN FillColumnRows(
            [a EXCEPT !.I = [@ EXCEPT ![i] = best_i],
                      !.D = [@ EXCEPT ![i] = best_d],
                      !.S = [[@ EXCEPT ![i] = s7]
                               EXCEPT ![m] = IF clipx THEN s7 + sc.xclip_suffix
                                             ELSE IF i = m THEN s7 ELSE @],
                      !.Lxj = IF clipx THEN m - i ELSE IF i = m /\ ~suffix THEN 0 ELSE @,
                      !.Sn = [@ EXCEPT ![i] = IF clipy THEN s7 + sc.yclip_suffix ELSE @],
                      !.Ly = [@ EXCEPT ![i] = IF clipy THEN n - jj ELSE @],
                      !.tb = [@ EXCEPT ![i][jj] = r7]],
            c, yq, i + 1, m, n, jj, prev, jump)

\* SingleContigAligner::fill_column: rows 1..=m of column jj, in ascending order
fill_column(c, yq, m, n, jj, prev, curr, jump) ==
    LET a0 == [I |-> c.I[curr], D |-> c.D[curr], S |-> c.S[curr],
               Lxj |-> 0, Sn |-> c.Sn, Ly |-> c.Ly, tb |-> c.traceback.matrix]
        a == FillColumnRows(a0, c, yq, 1, m, n, jj, prev, jump)
    IN [c EXCEPT !.I[curr] = a.I, !.D[curr] = a.D, !.S[curr] = a.S,
                 !.Lx[jj] = a.Lxj, !.Sn = a.Sn, !.Ly = a.Ly,
                 !.traceback.matrix = a.tb]

\* one row of the end clipping in the last column
RECURSIVE EndClippingRows(_, _, _, _)
EndClippingRows(c, i, m, n) ==
    IF i > m THEN c
    ELSE
      LET sc == c.scoring
          curr == n % 2
          yclip == c.Sn[i] > c.S[curr][i]
          c1 == IF yclip
                THEN [c EXCEPT !.S[curr][i] = c.Sn[i],
                               !.traceback.matrix[i][n] =
                                   set_s_all(@, TB_YCLIP_SUFFIX,
                                             c.traceback.matrix[i][n - c.Ly[i]].s_len,
                                             c.contig_idx, i)]
                ELSE c
          xclip == c1.S[curr][i] + sc.xclip_suffix > c1.S[curr][m]
          c2 == IF xclip
                THEN [c1 EXCEPT !.S[curr][m] = c1.S[curr][i] + sc.xclip_suffix,
                                !.Lx[n] = m - i,
                                !.traceback.matrix[m][n] =
                                    set_s_all(@, TB_XCLIP_SUFFIX,
                                              c1.traceback.matrix[i][n].s_len,
                                              c.contig_idx, i)]
                ELSE c1
      IN EndClippingRows(c2, i + 1, m, n)

\* SingleContigAligner::fill_last_column_and_end_clipping
fill_last_column_and_end_clipping(c, m, n) == EndClippingRows(c, 0, m, n)

-----------------------------------------------------------------------------
(* MultiContigAligner.  An aligner value is a record                         *)
(*   [contigs, name_to_forward, name_to_revcomp];                            *)
(* contig k (0-based, as in the code) is contigs[k + 1].                     *)

\* Option<T>: None is the empty set, Some(v) the singleton {v}
None == {}
Some(v) == {v}
Unwrap(o) == CHOOSE v \in o : TRUE

\* MultiContigAligner::new
NewAligner ==
    [contigs |-> <<>>,
     name_to_forward |-> [k \in {} |-> 0],
     name_to_revcomp |-> [k \in {} |-> 0]]

\* MultiContigAligner::hashmap_for_strand
hashmap_for_strand(al, is_forward) ==
    IF is_forward THEN al.name_to_forward ELSE al.name_to_revcomp

\* HashMap::contains_key
contains_key(map, name) == name \in DOMAIN map

\* HashMap::insert
MapInsert(map, name, idx) ==
    [k \in (DOMAIN map) \cup {name} |-> IF k = name THEN idx ELSE map[k]]

\* HashMap::get(..).copied()
MapGet(map, name) == IF name \in DOMAIN map THEN Some(map[name]) ELSE None

\* a variant of the assertion that looks in the forward map only
AddContigPanicsForwardOnly(al, name, is_forward) ==
    contains_key(al.name_to_forward, name)

\* the assertion that opens add_contig
AddContigPanics(al, name, is_forward) ==
    contains_key(hashmap_for_strand(al, is_forward), name)

\* a variant of add_contig that numbers the contigs from one
add_contig_from_one(al, name, is_forward, seq, circular, scoring) ==
    LET contig_idx == Len(al.contigs) + 1
        contig_aligner ==
            ContigAlignerNew(name, is_forward, scoring, seq, contig_idx, circular)
    IN [contigs |-> Append(al.contigs, contig_aligner),
        name_to_forward |-> IF is_forward
                            THEN MapInsert(al.name_to_forward, name, contig_idx)
                            ELSE al.name_to_forward,
        name_to_revcomp |-> IF is_forward
                            THEN al.name_to_revcomp
                            ELSE MapInsert(al.name_to_revcomp, name, contig_idx)]

\* MultiContigAligner::add_contig, past its assertion
add_contig(al, name, is_forward, seq, circular, scoring) ==
    LET contig_idx == Len(al.contigs)
        contig_aligner ==
            ContigAlignerNew(name, is_forward, scoring, seq, contig_idx, circular)
    IN [contigs |-> Append(al.contigs, contig_aligner),
        name_to_forward |-> IF is_forward
                            THEN MapInsert(al.name_to_forward, name, contig_idx)
                            ELSE al.name_to_forward,
        name_to_revcomp |-> IF is_forward
                            THEN al.name_to_revcomp
                            ELSE MapInsert(al.name_to_revcomp, name, contig_idx)]

\* a variant of the twin lookup that reads the map of the contig's own strand
OppContigIdxSameStrand(al, contig) ==
    MapGet(hashmap_for_strand(al, contig.is_forward), contig.name)

\* custom: the index of the opposite-strand twin of a contig, if it exists
OppContigIdx(al, contig) ==
    MapGet(hashmap_for_strand(al, ~contig.is_forward), contig.name)

\* MultiContigAligner::jump_info_for_contig
jump_info_for_contig(contig, jj) ==
    get_jump_info(contig, ContigLen(contig), jj - 1,
                  contig.scoring.jump_score_same_contig_and_strand)

\* a variant of jump_info_for_opposite_strand that charges the twin's
\* same-strand jump score
jump_info_for_opposite_strand_same_score(al, opp_contig_idx, jj) ==
    IF opp_contig_idx = None THEN None
    ELSE LET opp == al.contigs[Unwrap(opp_contig_idx) + 1]
             info == get_jump_info(opp, ContigLen(opp), jj - 1,
                                   opp.scoring.jump_score_same_contig_and_strand)
         IN Some([info EXCEPT !.idx = opp.contig_idx])

\* MultiContigAligner::jump_info_for_opposite_strand
jump_info_for_opposite_strand(al, opp_contig_idx, jj) ==
    IF opp_contig_idx = None THEN None
    ELSE LET opp == al.contigs[Unwrap(opp_contig_idx) + 1]
             info == get_jump_info(opp, ContigLen(opp), jj - 1,
                                   opp.scoring.jump_score_same_contig_opposite_strand)
         IN Some([info EXCEPT !.idx = opp.contig_idx])

\* Iterator::max_by_key over (score, len): the last of the greatest elements
RECURSIVE MaxByKey(_, _, _)
MaxByKey(infos, k, best) ==
    IF k > Len(infos) THEN best
    ELSE MaxByKey(infos, k + 1,
                  IF best = None \/ ~BetterInfo(Unwrap(best), infos[k])
                  THEN Some(infos[k]) ELSE best)

\* a variant of jump_info_for_inter_contig that drops only the contig itself
jump_info_for_inter_contig_keep_twin(contig, infos, opp_contig_idx) ==
    MaxByKey(SelectSeq(infos, LAMBDA info : info.idx # contig.contig_idx), 1, None)

\* MultiContigAligner::jump_info_for_inter_contig
jump_info_for_inter_contig(contig, infos, opp_contig_idx) ==
    LET opp == IF opp_contig_idx = None THEN contig.contig_idx ELSE Unwrap(opp_contig_idx)
        kept == SelectSeq(infos, LAMBDA info : info.idx # contig.contig_idx /\ info.idx # opp)
    IN MaxByKey(kept, 1, None)

\* custom: the inter-contig jump info of every contig, stamped with its index
InterContigJumpInfos(al, jj) ==
    [k \in 1..Len(al.contigs) |->
        LET c == al.contigs[k]
            info == get_jump_info(c, ContigLen(c), jj - 1, c.scoring.jump_score_inter_contig)
        IN [info EXCEPT !.idx = c.contig_idx]]

\* custom: the three candidates of a contig
JumpCandidates(al, contig, infos, jj) ==
    LET opp_contig_idx == OppContigIdx(al, contig)
    IN [opp |-> opp_contig_idx,
        same |-> jump_info_for_contig(contig, jj),
        flip_strand |-> jump_info_for_opposite_strand(al, opp_contig_idx, jj),
        inter_contig |-> jump_info_for_inter_contig(contig, infos, opp_contig_idx)]

\* a variant of the choice that never leaves the same-contig candidate
BestJumpInfoSameOnly(cand) == cand.same

\* a variant of the choice in which a later kind wins an equal score
BestJumpInfoLastWins(cand) ==
    LET b0 == cand.same
        b1 == IF cand.flip_strand # None /\ Unwrap(cand.flip_strand).score >= b0.score
              THEN Unwrap(cand.flip_strand) ELSE b0
        b2 == IF cand.inter_contig # None /\ Unwrap(cand.inter_contig).score >= b1.score
              THEN Unwrap(cand.inter_contig) ELSE b1
    IN b2

\* custom: prefer same, then flip, then inter-contig
BestJumpInfo(cand) ==
    LET b0 == cand.same
        b1 == IF cand.flip_strand # None /\ Unwrap(cand.flip_strand).score > b0.score
              THEN Unwrap(cand.flip_strand) ELSE b0
        b2 == IF cand.inter_contig # None /\ Unwrap(cand.inter_contig).score > b1.score
              THEN Unwrap(cand.inter_contig) ELSE b1
    IN b2

\* a variant of the first loop of custom that keeps the suffix-clip scores
\* (Sn) a previous call left behind
CustomInitMatricesKeepSn(al, n) ==
    [al EXCEPT !.contigs =
        [k \in 1..Len(al.contigs) |->
            LET c == al.contigs[k]
                f == InitMatrices(c, ContigLen(c), n)
            IN IF c.Sn = <<>> THEN f ELSE [f EXCEPT !.Sn = c.Sn]]]

\* custom: init_matrices on every contig
CustomInitMatrices(al, n) ==
    [al EXCEPT !.contigs =
        [k \in 1..Len(al.contigs) |-> InitMatrices(al.contigs[k], ContigLen(al.contigs[k]), n)]]

\* custom: init_column on every contig
CustomInitColumn(al, jj, n) ==
    [al EXCEPT !.contigs =
        [k \in 1..Len(al.contigs) |->
            InitColumn(al.contigs[k], jj, jj % 2, ContigLen(al.contigs[k]), n)]]

\* custom: the candidates of every contig
CustomCandidates(al, jj) ==
    LET infos == InterContigJumpInfos(al, jj)
    IN [k \in 1..Len(al.contigs) |-> JumpCandidates(al, al.contigs[k], infos, jj)]

\* custom: fill_column on every contig with best_jump_infos[contig_idx]
CustomFillColumn(al, yq, jj, best) ==
    [al EXCEPT !.contigs =
        [k \in 1..Len(al.contigs) |->
            LET c == al.contigs[k]
            IN fill_column(c, yq, ContigLen(c), Len(yq), jj, 1 - (jj % 2), jj % 2,
                           best[c.contig_idx + 1])]]

\* custom: fill_last_column_and_end_clipping on every contig
CustomEndClipping(al, n) ==
    [al EXCEPT !.contigs =
        [k \in 1..Len(al.contigs) |->
            fill_last_column_and_end_clipping(al.contigs[k], ContigLen(al.contigs[k]), n)]]

-----------------------------------------------------------------------------
(* traceback() *)

\* AlignmentOperation
Op(kind, a, b) == [op |-> kind, a |-> a, b |-> b]
OpMatch == Op("Match", 0, 0)
OpSubst == Op("Subst", 0, 0)
OpIns == Op("Ins", 0, 0)
OpDel == Op("Del", 0, 0)
Xclip(len) == Op("Xclip", len, 0)
\* a variant of Yclip that records one base less than the arm consumed
YclipOneShort(len) == Op("Yclip", IF len > 0 THEN len - 1 ELSE 0, 0)
Yclip(len) == Op("Yclip", len, 0)
\* a variant of Xjump with its two fields exchanged
XjumpPosFirst(contig, pos) == Op("Xjump", pos, contig)
Xjump(contig, pos) == Op("Xjump", contig, pos)

Reverse(ops) == [k \in 1..Len(ops) |-> ops[Len(ops) + 1 - k]]

\* a variant of the start-cell scan that keeps the first contig whose score
\* is above MIN_SCORE
StartScanFirstContig(cs, n, k, best) ==
    LET found == {l \in k..Len(cs) : cs[l].S[n % 2][cs[l].traceback.rows - 1] > best.score}
    IN IF found = {} THEN best
       ELSE LET l == CHOOSE l \in found : \A l2 \in found : l <= l2
                m == cs[l].traceback.rows - 1
            IN [aligner_idx |-> l - 1, score |-> cs[l].S[n % 2][m],
                alignment_length |-> TbGet(cs[l].traceback, m, n).s_len]

\* a variant of the start-cell scan in which the last of the greatest wins
RECURSIVE StartScanLastWins(_, _, _, _)
StartScanLastWins(cs, n, k, best) ==
    IF k > Len(cs) THEN best
    ELSE
      LET cur_aligner == cs[k]
          m == cur_aligner.traceback.rows - 1
          cur_score == cur_aligner.S[n % 2][m]
          cur_len == TbGet(cur_aligner.traceback, m, n).s_len
          update == IF cur_score < best.score THEN FALSE
                    ELSE IF cur_score > best.score THEN TRUE
                    ELSE cur_len >= best.alignment_length
      IN StartScanLastWins(cs, n, k + 1,
                   IF update
                   THEN [aligner_idx |-> k - 1, score |-> cur_score,
                         alignment_length |-> cur_len]
                   ELSE best)

\* the start-cell scan: the contig with the greatest (score, length), the
\* first of them in iteration order
RECURSIVE StartScan(_, _, _, _)
StartScan(cs, n, k, best) ==
    IF k > Len(cs) THEN best
    ELSE
      LET cur_aligner == cs[k]
          m == cur_aligner.traceback.rows - 1
          cur_score == cur_aligner.S[n % 2][m]
          cur_len == TbGet(cur_aligner.traceback, m, n).s_len
          update == IF cur_score < best.score THEN FALSE
                    ELSE IF cur_score > best.score THEN TRUE
                    ELSE cur_len > best.alignment_length
      IN StartScan(cs, n, k + 1,
                   IF update
                   THEN [aligner_idx |-> k - 1, score |-> cur_score,
                         alignment_length |-> cur_len]
                   ELSE best)

\* assert_eq!(cur_aligner_idx, cur_aligner.contig_idx as usize) for every aligner
StartAssertOk(cs) == \A k \in 1..Len(cs) : cs[k].contig_idx = k - 1

\* a variant of the statements before the loop in which xend starts at the
\* last row but one
TracebackStartShortXend(cs, n) ==
    LET best == StartScan(cs, n, 1,
                          [aligner_idx |-> 0, score |-> MIN_SCORE, alignment_length |-> 0])
        cur_aligner == cs[best.aligner_idx + 1]
        i0 == cur_aligner.traceback.rows - 1
    IN [state |-> "loop",
        aligner_idx |-> best.aligner_idx,
        score |-> best.score,
        alignment_length |-> best.alignment_length,
        contig_idx |-> cur_aligner.contig_idx,
        xlen |-> cur_aligner.traceback.rows - 1,
        cur_contig_idx |-> cur_aligner.contig_idx,
        i |-> i0, j |-> n,
        xstart |-> 0, ystart |-> 0, xend |-> i0 - 1, yend |-> n,
        last_layer |-> TbGet(cur_aligner.traceback, i0, n).s_tb,
        operations |-> <<>>,
        steps |-> 0]

\* a variant of the statements before the loop that takes xlen from the
\* first contig
TracebackStartFirstXlen(cs, n) ==
    LET best == StartScan(cs, n, 1,
                          [aligner_idx |-> 0, score |-> MIN_SCORE, alignment_length |-> 0])
        cur_aligner == cs[best.aligner_idx + 1]
        i0 == cur_aligner.traceback.rows - 1
    IN [state |-> "loop",
        aligner_idx |-> best.aligner_idx,
        score |-> best.score,
        alignment_length |-> best.alignment_length,
        contig_idx |-> cur_aligner.contig_idx,
        xlen |-> cs[1].traceback.rows - 1,
        cur_contig_idx |-> cur_aligner.contig_idx,
        i |-> i0, j |-> n,
        xstart |-> 0, ystart |-> 0, xend |-> i0, yend |-> n,
        last_layer |-> TbGet(cur_aligner.traceback, i0, n).s_tb,
        operations |-> <<>>,
        steps |-> 0]

\* traceback(): the statements before the loop
TracebackStart(cs, n) ==
    LET best == StartScan(cs, n, 1,
                          [aligner_idx |-> 0, score |-> MIN_SCORE, alignment_length |-> 0])
        cur_aligner == cs[best.aligner_idx + 1]
        i0 == cur_aligner.traceback.rows - 1
    IN [state |-> "loop",
        aligner_idx |-> best.aligner_idx,
        score |-> best.score,
        alignment_length |-> best.alignment_length,
        contig_idx |-> cur_aligner.contig_idx,
        xlen |-> cur_aligner.traceback.rows - 1,
        cur_contig_idx |-> cur_aligner.contig_idx,
        i |-> i0, j |-> n,
        xstart |-> 0, ystart |-> 0, xend |-> i0, yend |-> n,
        last_layer |-> TbGet(cur_aligner.traceback, i0, n).s_tb,
        operations |-> <<>>,
        steps |-> 0]

\* a failed index, subtraction or match arm: the walker panics
Panic(w) == [w EXCEPT !.state = "panic"]

\* the cell (i, jj) of contig k can be read
CanGet(cs, k, i, jj) ==
    k >= 0 /\ k < Len(cs) /\ TbInRange(cs[k + 1].traceback, i, jj)

\* one iteration of the loop of traceback()
TracebackStep(cs, w) ==
    LET cur == w.cur_contig_idx
        cur_aligner == cs[cur + 1]
        i == w.i
        jj == w.j
        cell == TbGet(cur_aligner.traceback, i, jj)
        w1 == [w EXCEPT !.steps = @ + 1]
    IN
    CASE w.last_layer = TB_START -> [w EXCEPT !.state = "break"]
      [] w.last_layer = TB_INS ->
            IF i = 0 THEN Panic(w1)
            ELSE [w1 EXCEPT !.operations = Append(@, OpIns),
                            !.last_layer = cell.i_tb,
                            !.i = i - 1]
      [] w.last_layer = TB_DEL ->
            IF jj = 0 THEN Panic(w1)
            ELSE [w1 EXCEPT !.operations = Append(@, OpDel),
                            !.last_layer = cell.d_tb,
                            !.j = jj - 1]
      [] w.last_layer \in {TB_MATCH, TB_SUBST} ->
            LET first == IF w.last_layer = TB_MATCH THEN OpMatch ELSE OpSubst
                s_value == get_s(cell)
                s_from == s_value.from
            IN IF i = 0 THEN Panic(w1)
               ELSE LET jump == s_value.idx # cur \/ s_from # i - 1
                        ncur == IF jump THEN s_value.idx ELSE cur
                    IN IF jj = 0 \/ ~CanGet(cs, ncur, s_from, jj - 1) THEN Panic(w1)
                       ELSE [w1 EXCEPT
                               !.operations =
                                   IF jump THEN Append(Append(@, first), Xjump(cur, i - 1))
                                   ELSE Append(@, first),
                               !.cur_contig_idx = ncur,
                               !.i = s_from,
                               !.j = jj - 1,
                               !.last_layer =
                                   TbGet(cs[ncur + 1].traceback, s_from, jj - 1).s_tb]
      [] w.last_layer = TB_XCLIP_PREFIX ->
            LET next_layer == TbGet(cur_aligner.traceback, 0, jj).s_tb
                clip == next_layer = TB_START \/ next_layer = TB_YCLIP_PREFIX
            IN [w1 EXCEPT !.operations = IF clip THEN Append(@, Xclip(i)) ELSE @,
                          !.xstart = IF clip THEN i ELSE @,
                          !.i = 0,
                          !.last_layer = next_layer]
      [] w.last_layer = TB_XCLIP_SUFFIX ->
            LET lx == cur_aligner.Lx[jj]
                clip == w.operations = <<>> \/ w.operations[1].op = "Yclip"
            IN IF lx > i THEN Panic(w1)
               ELSE [w1 EXCEPT !.operations = IF clip THEN Append(@, Xclip(lx)) ELSE @,
                               !.xend = IF clip THEN i - lx ELSE @,
                               !.i = i - lx,
                               !.last_layer = TbGet(cur_aligner.traceback, i - lx, jj).s_tb]
      [] w.last_layer = TB_YCLIP_PREFIX ->
            [w1 EXCEPT !.operations = Append(@, Yclip(jj)),
                       !.ystart = jj,
                       !.j = 0,
                       !.last_layer = TbGet(cur_aligner.traceback, i, 0).s_tb]
      [] w.last_layer = TB_YCLIP_SUFFIX ->
            LET ly == cur_aligner.Ly[i]
                s_from == get_s(cell).from
                ni == IF s_from # i THEN s_from ELSE i
            IN IF ly > jj \/ ~CanGet(cs, cur, ni, jj - ly) THEN Panic(w1)
               ELSE [w1 EXCEPT
                       !.operations =
                           IF s_from # i THEN Append(Append(@, Yclip(ly)), Xjump(cur, i))
                           ELSE Append(@, Yclip(ly)),
                       !.i = ni,
                       !.j = jj - ly,
                       !.yend = jj - ly,
                       !.last_layer = TbGet(cur_aligner.traceback, ni, jj - ly).s_tb]
      [] w.last_layer = TB_XJUMP ->
            LET s_value == get_s(cell)
            IN IF ~CanGet(cs, s_value.idx, s_value.from, jj) THEN Panic(w1)
               ELSE [w1 EXCEPT
                       !.operations = Append(@, Xjump(cur, i)),
                       !.cur_contig_idx = s_value.idx,
                       !.i = s_value.from,
                       !.last_layer =
                           TbGet(cs[s_value.idx + 1].traceback, s_value.from, jj).s_tb]
      [] OTHER -> Panic(w1)

IsClipOrJump(o) == o.op \in {"Xclip", "Yclip", "Xjump"}

\* a variant of the statements after the loop that reports the contig of the
\* start cell
TracebackFinishStartContig(w, n) ==
    LET operations == Reverse(w.operations)
        empty == \A k \in 1..Len(operations) : IsClipOrJump(operations[k])
    IN [score |-> w.score,
        ystart |-> IF empty THEN 0 ELSE w.ystart,
        xstart |-> IF empty THEN 0 ELSE w.xstart,
        yend |-> IF empty THEN 0 ELSE w.yend,
        xend |-> IF empty THEN 0 ELSE w.xend,
        xlen |-> w.xlen,
        ylen |-> n,
        contig_idx |-> w.contig_idx,
        operations |-> operations,
        length |-> w.alignment_length]

\* a variant of the statements after the loop that never resets the
\* coordinates
TracebackFinishNoReset(w, n) ==
    [score |-> w.score,
     ystart |-> w.ystart,
     xstart |-> w.xstart,
     yend |-> w.yend,
     xend |-> w.xend,
     xlen |-> w.xlen,
     ylen |-> n,
     contig_idx |-> w.cur_contig_idx,
     operations |-> Reverse(w.operations),
     length |-> w.alignment_length]

\* traceback(): the statements after the loop
TracebackFinish(w, n) ==
    LET operations == Reverse(w.operations)
        empty == \A k \in 1..Len(operations) : IsClipOrJump(operations[k])
    IN [score |-> w.score,
        ystart |-> IF empty THEN 0 ELSE w.ystart,
        xstart |-> IF empty THEN 0 ELSE w.xstart,
        yend |-> IF empty THEN 0 ELSE w.yend,
        xend |-> IF empty THEN 0 ELSE w.xend,
        xlen |-> w.xlen,
        ylen |-> n,
        contig_idx |-> w.cur_contig_idx,
        operations |-> operations,
        length |-> w.alignment_length]

-----------------------------------------------------------------------------
(* custom() as a function of the aligner and the query *)

RECURSIVE CustomColumns(_, _, _)
CustomColumns(al, yq, jj) ==
    IF jj > Len(yq) THEN al
    ELSE LET a1 == CustomInitColumn(al, jj, Len(yq))
             cand == CustomCandidates(a1, jj)
             best == [k \in 1..Len(cand) |-> BestJumpInfo(cand[k])]
         IN CustomColumns(CustomFillColumn(a1, yq, jj, best), yq, jj + 1)

\* the aligner after the DP of custom(yq), before traceback
CustomFilled(al, yq) ==
    CustomEndClipping(CustomColumns(CustomInitMatrices(al, Len(yq)), yq, 1), Len(yq))

RECURSIVE TracebackLoop(_, _)
TracebackLoop(cs, w) ==
    IF w.state # "loop" \/ w.steps >= MaxSteps THEN w
    ELSE TracebackLoop(cs, TracebackStep(cs, w))

\* the walker at the end of traceback() on the filled matrices
CustomWalk(al, yq) ==
    LET filled == CustomFilled(al, yq)
    IN TracebackLoop(filled.contigs, TracebackStart(filled.contigs, Len(yq)))

\* MultiContigAligner::custom, for an aligner with at least one contig
custom(al, yq) == TracebackFinish(CustomWalk(al, yq), Len(yq))

-----------------------------------------------------------------------------
(* The state machine *)

\* the aligner held in the state
Aligner ==
    [contigs |-> contigs, name_to_forward |-> name_to_forward,
     name_to_revcomp |-> name_to_revcomp]

NumContigs == Len(contigs)

Init ==
    /\ contigs = NewAligner.contigs
    /\ name_to_forward = NewAligner.name_to_forward
    /\ name_to_revcomp = NewAligner.name_to_revcomp
    /\ add_result = [outcome |-> "none", name |-> "", is_forward |-> TRUE]
    /\ pc = "idle"
    /\ y = <<>>
    /\ j = 0
    /\ inter_contig_jump_infos = <<>>
    /\ best_jump_infos = <<>>
    /\ jump_log = <<>>
    /\ tbw = [state |-> "none"]
    /\ alignment = [score |-> MIN_SCORE]
    /\ calls = 0

RunVars == <<pc, y, j, inter_contig_jump_infos, best_jump_infos, jump_log, tbw,
             alignment, calls>>
AlignerVars == <<contigs, name_to_forward, name_to_revcomp>>

\* add_contig(name, is_forward, seq, circular, scoring): the call is refused
\* by its assertion, or appends the contig
AddContigCall(name, is_forward, seq, circular, scoring) ==
    /\ pc = "idle"
    /\ IF AddContigPanics(Aligner, name, is_forward)
       THEN /\ add_result' = [outcome |-> "panic", name |-> name, is_forward |-> is_forward]
            /\ UNCHANGED AlignerVars
       ELSE LET al == add_contig(Aligner, name, is_forward, seq, circular, scoring)
            IN /\ NumContigs < MaxContigs
               /\ contigs' = al.contigs
               /\ name_to_forward' = al.name_to_forward
               /\ name_to_revcomp' = al.name_to_revcomp
               /\ add_result' = [outcome |-> "ok", name |-> name, is_forward |-> is_forward]
    /\ UNCHANGED RunVars

\* custom(yq): init_matrices on every contig
CustomBegin(yq) ==
    /\ pc = "idle"
    /\ NumContigs > 0
    /\ contigs' = CustomInitMatrices(Aligner, Len(yq)).contigs
    /\ y' = yq
    /\ j' = 1
    /\ pc' = IF Len(yq) >= 1 THEN "init_column" ELSE "end_clipping"
    /\ calls' = calls + 1
    /\ UNCHANGED <<name_to_forward, name_to_revcomp, add_result,
                   inter_contig_jump_infos, best_jump_infos, jump_log, tbw, alignment>>

\* custom: init_column(j) on every contig
InitColumnStep ==
    /\ pc = "init_column"
    /\ contigs' = CustomInitColumn(Aligner, j, Len(y)).contigs
    /\ pc' = "jumps"
    /\ UNCHANGED <<name_to_forward, name_to_revcomp, add_result, calls, y, j,
                   inter_contig_jump_infos, best_jump_infos, jump_log, tbw, alignment>>

\* a variant of the jump choice that is made for the first column only and
\* kept for the later columns
ChooseJumpsStepOnce ==
    /\ pc = "jumps"
    /\ inter_contig_jump_infos' = InterContigJumpInfos(Aligner, j)
    /\ jump_log' = IF j = 1 THEN CustomCandidates(Aligner, j) ELSE jump_log
    /\ best_jump_infos' = [k \in 1..NumContigs |-> BestJumpInfo(jump_log'[k])]
    /\ pc' = "fill_column"
    /\ UNCHANGED <<AlignerVars, add_result, calls, y, j, tbw, alignment>>

\* custom: the inter-contig infos and the best jump of every contig
ChooseJumpsStep ==
    /\ pc = "jumps"
    /\ inter_contig_jump_infos' = InterContigJumpInfos(Aligner, j)
    /\ jump_log' = CustomCandidates(Aligner, j)
    /\ best_jump_infos' = [k \in 1..NumContigs |-> BestJumpInfo(jump_log'[k])]
    /\ pc' = "fill_column"
    /\ UNCHANGED <<AlignerVars, add_result, calls, y, j, tbw, alignment>>

\* custom: fill_column(j) on every contig, then the next column
FillColumnStep ==
    /\ pc = "fill_column"
    /\ contigs' = CustomFillColumn(Aligner, y, j, best_jump_infos).contigs
    /\ j' = j + 1
    /\ pc' = IF j < Len(y) THEN "init_column" ELSE "end_clipping"
    /\ UNCHANGED <<name_to_forward, name_to_revcomp, add_result, calls, y,
                   inter_contig_jump_infos, best_jump_infos, jump_log, tbw, alignment>>

\* custom: fill_last_column_and_end_clipping on every contig
EndClippingStep ==
    /\ pc = "end_clipping"
    /\ contigs' = CustomEndClipping(Aligner, Len(y)).contigs
    /\ pc' = "traceback"
    /\ UNCHANGED <<name_to_forward, name_to_revcomp, add_result, calls, y, j,
                   inter_contig_jump_infos, best_jump_infos, jump_log, tbw, alignment>>

\* traceback(): the assertions and the choice of the start cell
TracebackBegin ==
    /\ pc = "traceback"
    /\ IF StartAssertOk(contigs)
       THEN /\ tbw' = TracebackStart(contigs, Len(y))
            /\ pc' = "walk"
       ELSE /\ tbw' = tbw
            /\ pc' = "panic"
    /\ UNCHANGED <<AlignerVars, add_result, calls, y, j,
                   inter_contig_jump_infos, best_jump_infos, jump_log, alignment>>

\* traceback(): one iteration of the loop; on START the alignment is returned
WalkStep ==
    /\ pc = "walk"
    /\ tbw.steps < MaxSteps
    /\ LET w == TracebackStep(contigs, tbw)
       IN /\ tbw' = w
          /\ pc' = CASE w.state = "break" -> "done"
                     [] w.state = "panic" -> "panic"
                     [] OTHER -> "walk"
          /\ alignment' = IF w.state = "break"
                          THEN TracebackFinish(w, Len(y)) ELSE alignment
    /\ UNCHANGED <<AlignerVars, add_result, calls, y, j,
                   inter_contig_jump_infos, best_jump_infos, jump_log>>

-----------------------------------------------------------------------------
(* Inputs and specifications *)

\* global alignment (all clips MIN_SCORE) with cheap gaps and jumps
ScoringGlobal == scoring_global_custom(-1, -1, -1, -1)
\* global alignment where jumps are free and gaps never pay
ScoringGlobalFreeJump == scoring_global_custom(-1, -100, -100, 0)
\* local alignment (all clips 0) where gaps never pay
ScoringLocal == scoring_local_custom(-1, -100, -100, -1)

\* the query aligned end to end, the contig clipped freely, cheap gaps and jumps
ScoringSemiGlobal ==
    [scoring_local_custom(-1, -1, -1, -1) EXCEPT !.yclip_prefix = MIN_SCORE,
                                                 !.yclip_suffix = MIN_SCORE]

\* global alignment in which a jump to another contig is the cheapest jump
ScoringGlobalCheapInter == set_jump_scores(ScoringGlobal, -2, -2, -1)

RunScorings ==
    {ScoringGlobal, ScoringGlobalFreeJump, ScoringGlobalCheapInter,
     ScoringLocal, ScoringSemiGlobal}

TotalLen == LET RECURSIVE Sum(_)
                Sum(k) == IF k = 0 THEN 0 ELSE ContigLen(contigs[k]) + Sum(k - 1)
            IN Sum(NumContigs)

\* add_contig with any name and strand, single-base sequences, any circularity
Register ==
    \E name \in Names, is_forward \in BOOLEAN, b \in Bases,
       circular \in BOOLEAN, scoring \in {ScoringGlobal, ScoringLocal} :
        AddContigCall(name, is_forward, <<b>>, circular, scoring)

\* add_contig as the callers of custom use it: successful calls, linear contigs
\* that share one scoring.  Names and strands only matter through equality, so
\* the first contig is taken to be ("chr1", forward).
RegisterForRun ==
    \E name \in Names, is_forward \in BOOLEAN, seq \in SeqsOf(1, MaxSeqLen),
       scoring \in RunScorings :
        /\ NumContigs = 0 => (name = "chr1" /\ is_forward)
        /\ NumContigs > 0 => scoring = contigs[1].scoring
        /\ TotalLen + Len(seq) <= MaxTotalLen
        /\ ~AddContigPanics(Aligner, name, is_forward)
        /\ AddContigCall(name, is_forward, seq, FALSE, scoring)

CustomCall == \E yq \in SeqsOf(0, MaxQueryLen) : CustomBegin(yq)

\* registration only
NextReg == Register
SpecReg == Init /\ [][NextReg]_vars

\* registration, then one custom call followed step by step
Next ==
    \/ RegisterForRun
    \/ CustomCall
    \/ InitColumnStep
    \/ ChooseJumpsStep
    \/ FillColumnStep
    \/ EndClippingStep
    \/ TracebackBegin
    \/ WalkStep
Spec == Init /\ [][Next]_vars

-----------------------------------------------------------------------------
(* The scenario of test_jump_scores: a forward contig of three blocks, its  *)
(* reverse complement and a third contig of one block; the query is two     *)
(* blocks long, so its best alignment jumps once.                           *)

\* a run of len copies of base b
Block(b, len) == [k \in 1..len |-> b]

\* reverse_complement, the two bases being each other's complement
reverse_complement(seq) == [k \in 1..Len(seq) |-> 3 - seq[Len(seq) + 1 - k]]

x1 == Block(1, JumpBlock) \o Block(2, JumpBlock) \o Block(1, JumpBlock)
x2 == reverse_complement(x1)
x3 == Block(1, JumpBlock)
y1 == Block(1, 2 * JumpBlock)

\* the jump scores tried for each kind
JumpScores == {-2, -1}

\* the aligner of the scenario with the given jump scores
JumpAligner(js, jf, ji) ==
    LET sc == set_jump_scores(ScoringLocal, js, jf, ji)
        a1 == add_contig(NewAligner, "chr1", TRUE, x1, FALSE, sc)
        a2 == add_contig(a1, "chr1", FALSE, x2, FALSE, sc)
    IN add_contig(a2, "chr2", TRUE, x3, FALSE, sc)

InitJump ==
    /\ \E js \in JumpScores, jf \in JumpScores, ji \in JumpScores :
          /\ contigs = JumpAligner(js, jf, ji).contigs
          /\ name_to_forward = JumpAligner(js, jf, ji).name_to_forward
          /\ name_to_revcomp = JumpAligner(js, jf, ji).name_to_revcomp
    /\ add_result = [outcome |-> "ok", name |-> "chr2", is_forward |-> TRUE]
    /\ pc = "idle"
    /\ y = <<>>
    /\ j = 0
    /\ inter_contig_jump_infos = <<>>
    /\ best_jump_infos = <<>>
    /\ jump_log = <<>>
    /\ tbw = [state |-> "none"]
    /\ alignment = [score |-> MIN_SCORE]
    /\ calls = 0

CustomCallJump == CustomBegin(y1)

NextJump ==
    \/ CustomCallJump
    \/ InitColumnStep
    \/ ChooseJumpsStep
    \/ FillColumnStep
    \/ EndClippingStep
    \/ TracebackBegin
    \/ WalkStep
SpecJump == InitJump /\ [][NextJump]_vars

-----------------------------------------------------------------------------
(* Reuse of one aligner: custom is called again on the matrices that the    *)
(* previous call left behind, and the jump scores are changed in between,   *)
(* as test_jump_scores does.                                                *)

\* the jump scores (same, flip, inter) that a caller sets between two calls
ReuseJumpScores == {<<-1, -1, -1>>, <<-2, -2, -1>>}

\* the caller assigns scoring.set_jump_scores(..) to every contig
SetJumpScoresCall ==
    \E t \in ReuseJumpScores :
        /\ pc = "idle"
        /\ NumContigs > 0
        /\ contigs' = [k \in 1..NumContigs |->
                          [contigs[k] EXCEPT
                              !.scoring = set_jump_scores(@, t[1], t[2], t[3])]]
        /\ UNCHANGED <<name_to_forward, name_to_revcomp, add_result, RunVars>>

\* custom has returned: its local variables are gone, the aligner keeps the
\* matrices of the call, and the caller may call again
ReturnStep ==
    /\ pc = "done"
    /\ calls < MaxCalls
    /\ pc' = "idle"
    /\ y' = <<>>
    /\ j' = 0
    /\ inter_contig_jump_infos' = <<>>
    /\ best_jump_infos' = <<>>
    /\ jump_log' = <<>>
    /\ tbw' = [state |-> "none"]
    /\ alignment' = [score |-> MIN_SCORE]
    /\ UNCHANGED <<AlignerVars, add_result, calls>>

\* add_contig before the first call: a few contigs with a local or a global
\* scoring
RegisterForReuse ==
    \E name \in Names, is_forward \in BOOLEAN, seq \in SeqsOf(1, MaxSeqLen),
       scoring \in {ScoringLocal, ScoringGlobal} :
        /\ calls = 0
        /\ NumContigs < MaxReuseContigs
        /\ NumContigs = 0 => (name = "chr1" /\ is_forward)
        /\ NumContigs > 0 => scoring = contigs[1].scoring
        /\ TotalLen + Len(seq) <= MaxTotalLen
        /\ ~AddContigPanics(Aligner, name, is_forward)
        /\ AddContigCall(name, is_forward, seq, FALSE, scoring)

\* registration, then custom calls one after the other on the same aligner
NextReuse ==
    \/ RegisterForReuse
    \/ SetJumpScoresCall
    \/ CustomCall
    \/ InitColumnStep
    \/ ChooseJumpsStep
    \/ FillColumnStep
    \/ EndClippingStep
    \/ TracebackBegin
    \/ WalkStep
    \/ ReturnStep
SpecReuse == Init /\ [][NextReuse]_vars

-----------------------------------------------------------------------------
(* Contigs that carry different jump scores: add_contig takes a scoring per  *)
(* contig, so the callers may give each contig its own.                      *)

\* the jump scores (same, flip, inter) a contig may be registered with
MixedJumpScores == {<<-1, -1, -1>>, <<-1, -2, -3>>}

\* add_contig with a local scoring whose jump scores are chosen per contig
RegisterMixed ==
    \E name \in Names, is_forward \in BOOLEAN, seq \in SeqsOf(1, MaxSeqLen),
       t \in MixedJumpScores :
        /\ NumContigs = 0 => (name = "chr1" /\ is_forward)
        /\ TotalLen + Len(seq) <= MaxTotalLen
        /\ ~AddContigPanics(Aligner, name, is_forward)
        /\ AddContigCall(name, is_forward, seq, FALSE,
                         set_jump_scores(ScoringLocal, t[1], t[2], t[3]))

\* registration with mixed jump scores, then one custom call
NextMixed ==
    \/ RegisterMixed
    \/ CustomCall
    \/ InitColumnStep
    \/ ChooseJumpsStep
    \/ FillColumnStep
    \/ EndClippingStep
    \/ TracebackBegin
    \/ WalkStep
SpecMixed == Init /\ [][NextMixed]_vars

-----------------------------------------------------------------------------
(* Properties of registration *)

\* a contig with this name and strand is registered
Registered(name, is_forward) ==
    \E k \in 1..NumContigs :
        contigs[k].name = name /\ contigs[k].is_forward = is_forward

\* no two registered contigs share (name, is_forward)
UniqueNameStrand ==
    \A k, l \in 1..NumContigs :
        (contigs[k].name = contigs[l].name
            /\ contigs[k].is_forward = contigs[l].is_forward) => k = l

\* what a call add_contig(name, is_forward, ..) does to the aligner
AddContigOutcome ==
    LET r == add_result'
    IN IF Registered(r.name, r.is_forward)
       THEN r.outcome = "panic" /\ UNCHANGED AlignerVars
       ELSE /\ r.outcome = "ok"
            /\ Len(contigs') = NumContigs + 1
            /\ SubSeq(contigs', 1, NumContigs) = contigs
            /\ contigs'[NumContigs + 1].name = r.name
            /\ contigs'[NumContigs + 1].is_forward = r.is_forward

\* C5: add_contig fails when a contig with the same (name, is_forward) is
\* already registered, and the failing call changes neither the contig list
\* nor the two maps; a call with a pair not yet registered (the same name on
\* the opposite strand included) appends the contig.  Hence no two registered
\* contigs have the same (name, is_forward).
C5_AddContigRefusesDuplicates ==
    []UniqueNameStrand /\ [][AddContigOutcome]_vars

\* a refused call, made when the name was registered on both strands by
\* successful calls
C5_Witness ==
    /\ add_result.outcome = "panic"
    /\ \E k, l \in 1..NumContigs :
          contigs[k].name = contigs[l].name /\ contigs[k].is_forward # contigs[l].is_forward

\* C6: the contig_idx of every contig is its position in the contig list,
\* each map sends every name registered on its strand to the index of the
\* contig with that name and strand (and holds nothing else), and the
\* assertion that opens traceback never fails.
C6_ContigIdxIsPosition ==
    /\ \A k \in 1..NumContigs : contigs[k].contig_idx = k - 1
    /\ \A f \in BOOLEAN :
          LET map == hashmap_for_strand(Aligner, f)
          IN /\ \A name \in DOMAIN map :
                   /\ map[name] + 1 \in 1..NumContigs
                   /\ contigs[map[name] + 1].name = name
                   /\ contigs[map[name] + 1].is_forward = f
             /\ \A k \in 1..NumContigs :
                   contigs[k].is_forward = f =>
                       /\ contigs[k].name \in DOMAIN map
                       /\ map[contigs[k].name] = k - 1
    /\ pc = "panic" => tbw.state = "panic"

\* traceback has passed its assertion with three contigs on both strands
C6_Witness ==
    /\ pc = "walk"
    /\ NumContigs = MaxContigs
    /\ DOMAIN name_to_forward # {}
    /\ DOMAIN name_to_revcomp # {}

-----------------------------------------------------------------------------
(* Properties of the choice of the jump *)

\* the scores of the candidates that exist for a contig
CandidateScores(cand) ==
    {cand.same.score}
        \cup {info.score : info \in cand.flip_strand}
        \cup {info.score : info \in cand.inter_contig}

\* the greatest element of a non-empty set of integers
MaxOf(scores) == CHOOSE v \in scores : \A u \in scores : u <= v

\* C3: for every contig and column, the jump handed to fill_column has the
\* greatest score among the same-contig, strand-flip and inter-contig
\* candidates, and among candidates with that score it is the Same one if
\* there is one, else the Flip one if there is one, else the Inter one.
C3_BestJumpIsMaxSameFlipInter ==
    pc = "fill_column" =>
        \A k \in 1..NumContigs :
            LET cand == jump_log[k]
                best == best_jump_infos[k]
                top == MaxOf(CandidateScores(cand))
            IN /\ best.score = top
               /\ IF cand.same.score = top THEN best = cand.same
                  ELSE IF \E info \in cand.flip_strand : info.score = top
                       THEN best = Unwrap(cand.flip_strand)
                       ELSE best = Unwrap(cand.inter_contig)

\* all three candidates exist, differ and have the same score, and Same is used
C3_Witness ==
    /\ pc = "fill_column"
    /\ \E k \in 1..NumContigs :
          LET cand == jump_log[k]
          IN /\ cand.flip_strand # None /\ cand.inter_contig # None
             /\ Unwrap(cand.flip_strand).score = cand.same.score
             /\ Unwrap(cand.inter_contig).score = cand.same.score
             /\ Unwrap(cand.flip_strand) # cand.same
             /\ Unwrap(cand.inter_contig) # cand.same
             /\ best_jump_infos[k] = cand.same

\* the positions of the opposite-strand twins of contig k
Twins(k) ==
    {l \in 1..NumContigs :
        contigs[l].name = contigs[k].name /\ contigs[l].is_forward # contigs[k].is_forward}

\* the positions of the contigs that are neither k nor its twin
Others(k) == (1..NumContigs) \ ({k} \cup Twins(k))

\* C7: the Inter candidate of contig k never comes from k or from its
\* opposite-strand twin; it is the greatest by (score, len) of the
\* inter-contig infos of the other contigs, and it is absent exactly when
\* there is no other contig.  So a chosen jump whose idx is k is the Same
\* candidate and one whose idx is the twin is the Flip candidate.
C7_InterExcludesSelfAndTwin ==
    pc = "fill_column" =>
        \A k \in 1..NumContigs :
            LET cand == jump_log[k]
                best == best_jump_infos[k]
            IN /\ cand.inter_contig = None <=> Others(k) = {}
               /\ \A info \in cand.inter_contig :
                     /\ info.idx + 1 \in Others(k)
                     /\ info = inter_contig_jump_infos[info.idx + 1]
                     /\ \A l \in Others(k) :
                           ~BetterInfo(inter_contig_jump_infos[l], info)
               /\ best.idx = k - 1 => best = cand.same
               /\ best.idx + 1 \in Twins(k) => cand.flip_strand = {best}

\* a contig with a twin and a third contig, whose Inter candidate exists
C7_Witness ==
    /\ pc = "fill_column"
    /\ \E k \in 1..NumContigs :
          /\ Twins(k) # {}
          /\ Others(k) # {}
          /\ jump_log[k].inter_contig # None
          /\ Unwrap(jump_log[k].inter_contig).idx + 1 \in Others(k)

-----------------------------------------------------------------------------
(* Properties of the returned alignment *)

\* custom has returned or panicked
Finished == pc \in {"done", "panic"}

\* the scoring of the run is global: all four clip scores are MIN_SCORE
GlobalRun ==
    \A k \in 1..NumContigs :
        LET sc == contigs[k].scoring
        IN /\ sc.xclip_prefix = MIN_SCORE /\ sc.xclip_suffix = MIN_SCORE
           /\ sc.yclip_prefix = MIN_SCORE /\ sc.yclip_suffix = MIN_SCORE

\* every mismatch, gap and jump of the run costs something
PenaltiesNegative ==
    \A k \in 1..NumContigs :
        LET sc == contigs[k].scoring
        IN /\ sc.mismatch_score < 0 /\ sc.gap_open + sc.gap_extend < 0
           /\ sc.gap_extend < 0
           /\ sc.jump_score_same_contig_and_strand < 0
           /\ sc.jump_score_same_contig_opposite_strand < 0
           /\ sc.jump_score_inter_contig < 0

\* the query is the sequence of contig k and of no other contig
OnlyContigEqualToQuery(k) ==
    \A l \in 1..NumContigs : contigs[l].seq = y <=> l = k

\* the alignment of the whole query to the whole of contig k, all matches
IsWholeContigMatch(k) ==
    /\ pc = "done"
    /\ alignment.score = Len(y)
    /\ alignment.operations = [q \in 1..Len(y) |-> OpMatch]
    /\ alignment.contig_idx = k - 1
    /\ alignment.xstart = 0 /\ alignment.ystart = 0
    /\ alignment.xend = Len(y) /\ alignment.yend = Len(y)

\* C2 as stated: with global scoring and a query identical to the sequence of
\* one contig c and of no other, custom returns score |y|, exactly |y| Match
\* operations and no jump or clip, contig_idx = c, xstart = ystart = 0 and
\* xend = yend = |y|.
C2_IdenticalQueryAsStated ==
    (Finished /\ GlobalRun) =>
        \A k \in 1..NumContigs : OnlyContigEqualToQuery(k) => IsWholeContigMatch(k)

\* C2, amended: the same, when in addition every mismatch, gap and jump score
\* is negative.
C2_IdenticalQuery ==
    (Finished /\ GlobalRun /\ PenaltiesNegative) =>
        \A k \in 1..NumContigs : OnlyContigEqualToQuery(k) => IsWholeContigMatch(k)

\* a finished global run with penalties, three contigs, the query equal to
\* the last one only
C2_Witness ==
    /\ pc = "done" /\ GlobalRun /\ PenaltiesNegative
    /\ NumContigs = 3 /\ Len(y) = 2
    /\ OnlyContigEqualToQuery(3)

-----------------------------------------------------------------------------
(* Properties of the scenario of test_jump_scores *)

\* the positions of the operations of a kind in the returned list
OpsOfKind(kind) ==
    {q \in 1..Len(alignment.operations) : alignment.operations[q].op = kind}

\* the kind of a jump from contig src to contig dst (indices from 0)
JumpKind(src, dst) ==
    IF src = dst THEN "same"
    ELSE IF contigs[src + 1].name = contigs[dst + 1].name THEN "flip"
    ELSE "inter"

\* C4: in the scenario of a forward contig, its twin and a third contig, with
\* a query that needs exactly one jump which every kind can realise with the
\* same number of matches, the alignment has that one jump, of the kind with
\* the greatest jump score, and on equal scores same before flip before
\* inter; a same jump leaves contig_idx at the forward contig; the score is
\* the number of matches plus that one jump score.
C4_JumpScoresDecideTheKind ==
    Finished =>
        /\ pc = "done"
        /\ LET sc == contigs[1].scoring
               js == sc.jump_score_same_contig_and_strand
               jf == sc.jump_score_same_contig_opposite_strand
               ji == sc.jump_score_inter_contig
               top == MaxOf({js, jf, ji})
               expected == IF js = top THEN "same" ELSE IF jf = top THEN "flip" ELSE "inter"
               jumps == OpsOfKind("Xjump")
           IN /\ Cardinality(jumps) = 1
              /\ Cardinality(OpsOfKind("Match")) = Len(y)
              /\ OpsOfKind("Subst") \cup OpsOfKind("Ins") \cup OpsOfKind("Del") = {}
              /\ alignment.score = Len(y) + top
              /\ \A q \in jumps :
                    JumpKind(alignment.contig_idx, alignment.operations[q].a) = expected
              /\ expected = "same" => alignment.contig_idx = 0

\* the run with jump scores (-2, -1, -1) has returned: flip and inter tie
C4_Witness ==
    /\ pc = "done"
    /\ y = y1
    /\ contigs[1].scoring.jump_score_same_contig_and_strand = -2
    /\ contigs[1].scoring.jump_score_same_contig_opposite_strand = -1
    /\ contigs[1].scoring.jump_score_inter_contig = -1
    /\ OpsOfKind("Xjump") # {}

-----------------------------------------------------------------------------
(* Insertion order *)

\* the list 1..n with the entries a and b exchanged
SwapOrder(n, a, b) ==
    [k \in 1..n |-> IF k = a THEN b ELSE IF k = b THEN a ELSE k]

\* an aligner that registers the contigs of the state in the given order
RECURSIVE RegisterInOrder(_, _, _)
RegisterInOrder(al, order, k) ==
    IF k > Len(order) THEN al
    ELSE LET c == contigs[order[k]]
         IN RegisterInOrder(
                add_contig(al, c.name, c.is_forward, c.seq, c.circular, c.scoring),
                order, k + 1)

\* the walker at the end of custom(y) on the aligner with contigs a and b
\* registered in each other's place
SwappedWalk(a, b) ==
    CustomWalk(RegisterInOrder(NewAligner, SwapOrder(NumContigs, a, b), 1), y)

\* C8: two aligners that register the same contigs in insertion orders that
\* differ by swapping two contigs return the same score from custom(y): the
\* score of the start cell, which is the score of the returned alignment, is
\* the same in both.
C8_SwapKeepsScore ==
    Finished =>
        /\ pc = "done" => alignment.score = tbw.score
        /\ \A a, b \in 1..NumContigs :
              a < b =>
                  LET w == SwappedWalk(a, b)
                  IN /\ w.score = tbw.score
                     /\ w.state = "break" => custom(RegisterInOrder(NewAligner,
                                SwapOrder(NumContigs, a, b), 1), y).score = tbw.score

\* a returned run on three contigs in which the swap of the first and the
\* last changes the contig the alignment starts on
C8_Witness ==
    /\ pc = "done"
    /\ NumContigs = 3
    /\ Len(y) = 2
    /\ contigs[1].seq # contigs[3].seq
    /\ SwappedWalk(1, 3).aligner_idx # tbw.aligner_idx

-----------------------------------------------------------------------------
(* The score along the returned operations *)

\* the jump score a contig charges for a jump of the given kind
JumpScoreOf(sc, kind) ==
    CASE kind = "same" -> sc.jump_score_same_contig_and_strand
      [] kind = "flip" -> sc.jump_score_same_contig_opposite_strand
      [] OTHER -> sc.jump_score_inter_contig

\* one operation applied to the position [c, i, q] (contig, rows and columns
\* consumed) and to the score collected so far
PathStep(st, o) ==
    LET sc == contigs[st.c + 1].scoring
        seq == contigs[st.c + 1].seq
        gap == sc.gap_extend + (IF st.prev = o.op THEN 0 ELSE sc.gap_open)
    IN CASE o.op \in {"Match", "Subst"} ->
              IF st.i < Len(seq) /\ st.q < Len(y)
              THEN [st EXCEPT !.score = @ + match_fn(sc, seq[st.i + 1], y[st.q + 1]),
                              !.i = @ + 1, !.q = @ + 1,
                              !.prev = o.op, !.started = TRUE]
              ELSE [st EXCEPT !.ok = FALSE]
         [] o.op = "Ins" ->
              [st EXCEPT !.score = @ + gap, !.i = @ + 1,
                         !.prev = o.op, !.started = TRUE]
         [] o.op = "Del" ->
              [st EXCEPT !.score = @ + gap, !.q = @ + 1,
                         !.prev = o.op, !.started = TRUE]
         [] o.op = "Xclip" ->
              IF st.started
              THEN [st EXCEPT !.score = @ + sc.xclip_suffix, !.prev = o.op]
              ELSE [st EXCEPT !.score = @ + sc.xclip_prefix, !.i = o.a, !.prev = o.op]
         [] o.op = "Yclip" ->
              IF st.started
              THEN [st EXCEPT !.score = @ + sc.yclip_suffix, !.prev = o.op]
              ELSE [st EXCEPT !.score = @ + sc.yclip_prefix, !.q = o.a, !.prev = o.op]
         [] OTHER ->
              IF o.a + 1 \in 1..NumContigs
              THEN [st EXCEPT !.score = @ + JumpScoreOf(sc, JumpKind(st.c, o.a)),
                              !.c = o.a, !.i = o.b, !.prev = o.op]
              ELSE [st EXCEPT !.ok = FALSE]

\* the operations from the k-th on, applied in order
RECURSIVE PathFrom(_, _, _)
PathFrom(ops, k, st) ==
    IF k > Len(ops) \/ ~st.ok THEN st
    ELSE PathFrom(ops, k + 1, PathStep(st, ops[k]))

\* the path of the returned alignment, from its first contig
ReturnedPath ==
    PathFrom(alignment.operations, 1,
             [c |-> alignment.contig_idx, i |-> 0, q |-> 0, score |-> 0,
              prev |-> "none", started |-> FALSE, ok |-> TRUE])

\* C1: the score returned by custom(y) is the sum, along the returned
\* operations, of match_fn for each Match/Subst, the gap open/extend costs of
\* each run of Ins or Del, the clip score of every clip and the jump score
\* (same / flip / inter) of every jump.
C1_ScoreIsSumAlongPath ==
    pc = "done" => ReturnedPath.ok /\ ReturnedPath.score = alignment.score

ReturnedNonEmpty ==
    /\ pc = "done"
    /\ \E q \in 1..Len(alignment.operations) : ~IsClipOrJump(alignment.operations[q])

\* C10 as stated: the path that starts on contig_idx and follows the Xjump
\* operations has its last segment on contig contig_idx, ending at xend.
C10_LastSegmentOnContigIdx ==
    ReturnedNonEmpty =>
        /\ ReturnedPath.c = alignment.contig_idx
        /\ ReturnedPath.i = alignment.xend

\* C10, amended: contig_idx is the contig of the first segment; the path that
\* starts there and follows the Xjump operations has its last segment on the
\* contig of the traceback start cell (the contig of the last Xjump, or
\* contig_idx when there is none), it ends at xend, and xlen is the length of
\* that contig.
C10_LastSegmentOnStartCellContig ==
    ReturnedNonEmpty =>
        /\ ReturnedPath.c = tbw.aligner_idx
        /\ ReturnedPath.i = alignment.xend
        /\ alignment.xlen = ContigLen(contigs[tbw.aligner_idx + 1])
        /\ OpsOfKind("Xjump") = {} => alignment.contig_idx = tbw.aligner_idx
        /\ \A q \in OpsOfKind("Xjump") :
              (\A r \in OpsOfKind("Xjump") : r <= q) =>
                  alignment.operations[q].a = tbw.aligner_idx

\* a returned alignment of two matches that starts on one contig and ends,
\* after a jump, on another
C10_Witness ==
    /\ ReturnedNonEmpty
    /\ Len(y) = 2
    /\ OpsOfKind("Xjump") # {}
    /\ ReturnedPath.c # alignment.contig_idx
    /\ ReturnedPath.i = alignment.xend

-----------------------------------------------------------------------------
(* The contig of the returned alignment *)

\* the position of the first Match, Subst, Ins or Del of the returned list
FirstAligned ==
    CHOOSE q \in 1..Len(alignment.operations) :
        /\ ~IsClipOrJump(alignment.operations[q])
        /\ \A r \in 1..(q - 1) : IsClipOrJump(alignment.operations[r])

\* the contig the first Match, Subst, Ins or Del aligns to: the one reached
\* from contig_idx through the Xjump operations before it
FirstAlignedContig ==
    PathFrom(SubSeq(alignment.operations, 1, FirstAligned - 1), 1,
             [c |-> alignment.contig_idx, i |-> 0, q |-> 0, score |-> 0,
              prev |-> "none", started |-> FALSE, ok |-> TRUE]).c

\* C11 as stated: the returned contig_idx is the contig on which the walker
\* stands when it reaches START, and it is the contig that the first
\* operation of the returned list that is not a clip aligns to.
C11_ContigIdxIsFirstAlignedContig ==
    pc = "done" =>
        /\ alignment.contig_idx = tbw.cur_contig_idx
        /\ ReturnedNonEmpty => FirstAlignedContig = alignment.contig_idx

\* C11, amended: the returned contig_idx is the contig on which the walker
\* stands when it reaches START, the contig the path starts on; the first
\* Match, Subst, Ins or Del aligns to it unless an Xjump to another contig
\* precedes that operation in the returned list.
C11_ContigIdxIsWhereTheWalkerStops ==
    pc = "done" =>
        /\ tbw.state = "break" /\ tbw.last_layer = TB_START
        /\ alignment.contig_idx = tbw.cur_contig_idx
        /\ ReturnedNonEmpty =>
              \/ FirstAlignedContig = alignment.contig_idx
              \/ \E r \in 1..(FirstAligned - 1) :
                    /\ alignment.operations[r].op = "Xjump"
                    /\ alignment.operations[r].a # alignment.contig_idx

\* a returned alignment that starts with a match on one contig and ends on
\* another
C11_Witness ==
    /\ ReturnedNonEmpty
    /\ alignment.operations[1].op = "Match"
    /\ alignment.contig_idx # tbw.aligner_idx
    /\ OpsOfKind("Xjump") # {}

-----------------------------------------------------------------------------
(* The start cell *)

\* the traceback has chosen its start cell
Started == pc \in {"walk", "done", "panic"} /\ tbw.state # "none"

\* the score and the run length of the cell (m_k, n) of contig k
EndScore(k) == contigs[k].S[Len(y) % 2][ContigLen(contigs[k])]
EndLen(k) == TbGet(contigs[k].traceback, ContigLen(contigs[k]), Len(y)).s_len

\* C12: the traceback starts on the contig that maximises (S[n%2][m_k],
\* s_len of (m_k, n)) lexicographically, the lowest-indexed one when several
\* are equal on both; the returned score is that contig's S[n%2][m_k] and
\* the returned length its s_len.
C12_StartCellMaximisesScoreThenLength ==
    Started =>
        LET k == tbw.aligner_idx + 1
        IN /\ k \in 1..NumContigs
           /\ tbw.contig_idx = k - 1
           /\ \A l \in 1..NumContigs :
                 \/ EndScore(l) < EndScore(k)
                 \/ EndScore(l) = EndScore(k) /\ EndLen(l) < EndLen(k)
                 \/ EndScore(l) = EndScore(k) /\ EndLen(l) = EndLen(k) /\ k <= l
           /\ tbw.score = EndScore(k)
           /\ tbw.alignment_length = EndLen(k)
           /\ pc = "done" =>
                 alignment.score = EndScore(k) /\ alignment.length = EndLen(k)

\* an alignment was returned that starts on a contig chosen for its length:
\* an earlier contig has the same score and a shorter run
C12_Witness ==
    /\ pc = "done"
    /\ \E l \in 1..NumContigs :
          /\ l < tbw.aligner_idx + 1
          /\ EndScore(l) = tbw.score /\ EndLen(l) < tbw.alignment_length

-----------------------------------------------------------------------------
(* Global scoring, empty queries *)

\* C13: when all four clip scores are MIN_SCORE on every contig, the
\* alignment returned for a non-empty query has no Xclip and no Yclip,
\* ystart = 0, yend = n, xstart = 0 and xend equal to the length of the
\* contig the alignment ends on, with or without jumps.
C13_GlobalRunHasNoClips ==
    (pc = "done" /\ GlobalRun /\ Len(y) >= 1) =>
        /\ OpsOfKind("Xclip") = {} /\ OpsOfKind("Yclip") = {}
        /\ alignment.ystart = 0 /\ alignment.yend = Len(y)
        /\ alignment.xstart = 0
        /\ alignment.xend = ContigLen(contigs[tbw.aligner_idx + 1])
        /\ alignment.xend = ContigLen(contigs[ReturnedPath.c + 1])

\* a global run over two columns has returned an alignment with a jump
\* between two contigs of different lengths
C13_Witness ==
    /\ pc = "done" /\ GlobalRun /\ Len(y) = 2
    /\ OpsOfKind("Xjump") # {}
    /\ alignment.contig_idx # tbw.aligner_idx
    /\ ContigLen(contigs[alignment.contig_idx + 1]) # alignment.xend

\* C14: for an empty query custom returns, without error, an empty
\* alignment: no Match, Subst, Ins or Del, xstart = xend = ystart = yend = 0,
\* and score MIN_SCORE or 0, for global as well as local clip scores.
C14_EmptyQueryGivesEmptyAlignment ==
    (Finished /\ Len(y) = 0) =>
        /\ pc = "done"
        /\ \A q \in 1..Len(alignment.operations) : IsClipOrJump(alignment.operations[q])
        /\ alignment.xstart = 0 /\ alignment.xend = 0
        /\ alignment.ystart = 0 /\ alignment.yend = 0
        /\ alignment.score \in {MIN_SCORE, 0}

-----------------------------------------------------------------------------
(* Reuse of the aligner *)

\* an aligner built from scratch with the contigs and the scoring of the state
FreshAligner ==
    RegisterInOrder(NewAligner, [k \in 1..NumContigs |-> k], 1)

\* C15: whenever a custom call ends on an aligner that earlier calls have
\* used (any queries, jump scores changed in between), the walker and the
\* returned alignment are those of custom(y) on a freshly built aligner with
\* the same contigs and the current scoring.
C15_ReusedAlignerActsAsFresh ==
    Finished =>
        /\ tbw = CustomWalk(FreshAligner, y)
        /\ pc = "done" => alignment = custom(FreshAligner, y)

\* a second call on the same aligner has returned a non-empty alignment
C15_Witness ==
    /\ pc = "done"
    /\ calls = 2
    /\ NumContigs >= 2
    /\ alignment.operations # <<>>

-----------------------------------------------------------------------------
(* Order of the steps of custom *)

\* the aligner of the running call after init_matrices and the completed
\* columns 1..last, computed from scratch
RECURSIVE ColumnsFrom(_, _, _)
ColumnsFrom(al, jj, last) ==
    IF jj > last THEN al
    ELSE LET a1 == CustomInitColumn(al, jj, Len(y))
             cand == CustomCandidates(a1, jj)
             best == [k \in 1..Len(cand) |-> BestJumpInfo(cand[k])]
         IN ColumnsFrom(CustomFillColumn(a1, y, jj, best), jj + 1, last)

CompletedColumns(last) ==
    ColumnsFrom(CustomInitMatrices(FreshAligner, Len(y)), 1, last)

\* what each step of a run finds: the jumps of column j are read off the
\* completed column j - 1 of all contigs (init_column(j) does not change what
\* they read), fill_column(j) finds column j initialised on every contig, and
\* the end clipping finds all n columns filled
StepsSeeCompletedColumns ==
    /\ pc \in {"init_column", "jumps", "fill_column"} => j \in 1..Len(y)
    /\ pc = "init_column" => contigs = CompletedColumns(j - 1).contigs
    /\ pc \in {"jumps", "fill_column"} =>
          contigs = CustomInitColumn(CompletedColumns(j - 1), j, Len(y)).contigs
    /\ pc = "fill_column" =>
          /\ jump_log = CustomCandidates(CompletedColumns(j - 1), j)
          /\ best_jump_infos = [k \in 1..NumContigs |-> BestJumpInfo(jump_log[k])]
    /\ pc = "end_clipping" => contigs = CompletedColumns(Len(y)).contigs
    /\ pc \in {"traceback", "walk", "done"} =>
          contigs = CustomFilled(FreshAligner, y).contigs

\* the order in which the steps follow each other
StepOrder ==
    CASE pc = "idle" ->
            \/ pc' = "idle"
            \/ pc' = "init_column" /\ j' = 1 /\ Len(y') >= 1
            \/ pc' = "end_clipping" /\ Len(y') = 0
      [] pc = "init_column" -> pc' = "jumps" /\ j' = j /\ y' = y
      [] pc = "jumps" -> pc' = "fill_column" /\ j' = j /\ y' = y /\ contigs' = contigs
      [] pc = "fill_column" ->
            /\ y' = y
            /\ \/ j < Len(y) /\ pc' = "init_column" /\ j' = j + 1
               \/ j = Len(y) /\ pc' = "end_clipping"
      [] pc = "end_clipping" -> pc' = "traceback" /\ y' = y
      [] pc = "traceback" -> pc' \in {"walk", "panic"} /\ contigs' = contigs
      [] pc = "walk" -> pc' \in {"walk", "done", "panic"} /\ contigs' = contigs
      [] OTHER -> UNCHANGED vars

\* C16: in every run of custom each column j in 1..n goes through
\* init_column(j) on every contig, then the jump choice of every contig read
\* off the completed column j - 1, then fill_column(j) on every contig, and
\* the next column starts only after that; the end clipping follows the fill
\* of column n and traceback comes last.
C16_StepsInColumnOrder ==
    []StepsSeeCompletedColumns /\ [][StepOrder]_vars

\* fill_column(2) is about to run and some contig was given a jump from a
\* contig other than the one it received at column 1
C16_Witness ==
    /\ pc = "fill_column"
    /\ j = 2
    /\ NumContigs >= 2
    /\ \E k \in 1..NumContigs :
          best_jump_infos[k] # BestJumpInfo(CustomCandidates(CompletedColumns(0), 1)[k])

-----------------------------------------------------------------------------
(* Termination of the walker *)

\* C17: the traceback walker started on the matrices filled by custom reaches
\* last_layer = START after finitely many steps: it neither stops in a
\* failure nor keeps walking beyond the number of steps a path can have.
C17_WalkerReachesStart ==
    /\ pc # "panic"
    /\ pc = "walk" => tbw.steps < MaxSteps

-----------------------------------------------------------------------------
(* Tags *)

ValidTag(t) == t \in TB_START..TB_XJUMP

\* the three layers of every cell of every contig hold a valid tag
AllCellsTagged ==
    \A k \in 1..NumContigs :
        \A i \in DOMAIN contigs[k].traceback.matrix :
            \A jj \in DOMAIN contigs[k].traceback.matrix[i] :
                LET cell == TbGet(contigs[k].traceback, i, jj)
                IN ValidTag(cell.i_tb) /\ ValidTag(cell.d_tb) /\ ValidTag(cell.s_tb)

\* C18: every tag the walker reads as last_layer, from the S, I or D record
\* of a cell of any contig, whoever wrote the cell last, is one of
\* START..=XJUMP; the walker never meets an unknown tag.
C18_WalkerReadsValidTags ==
    /\ AllCellsTagged
    /\ Started => ValidTag(tbw.last_layer)

\* the walker has read match, clip and START tags on the matrices of two
\* contigs and returned
C18_Witness ==
    /\ pc = "done"
    /\ NumContigs >= 2
    /\ tbw.last_layer = TB_START
    /\ OpsOfKind("Match") # {}
    /\ OpsOfKind("Xclip") \cup OpsOfKind("Yclip") # {}

-----------------------------------------------------------------------------
(* Predecessors of gap cells *)

\* the scores of cell (i, jj) of contig k (index from 0) when column jj was
\* completed
ScoreS(k, i, jj) == CompletedColumns(jj).contigs[k + 1].S[jj % 2][i]
ScoreI(k, i, jj) == CompletedColumns(jj).contigs[k + 1].I[jj % 2][i]
ScoreD(k, i, jj) == CompletedColumns(jj).contigs[k + 1].D[jj % 2][i]

\* the walker is about to take a gap arm at a cell that fill_column wrote
WalkerAtGapCell(tag) ==
    /\ pc = "walk"
    /\ tbw.state = "loop"
    /\ tbw.last_layer = tag
    /\ tbw.i >= 1
    /\ tbw.j >= 1

\* C19: when the walker is at a cell (i, j) written by fill_column with
\* last_layer INS, the cell it moves to, (i - 1, j), is the cell whose S or I
\* score was extended to the I score of (i, j); with last_layer DEL the cell
\* it moves to, (i, j - 1), is the cell whose S or D score was extended to
\* the D score of (i, j).
C19_GapStepsFollowFillColumn ==
    LET k == tbw.cur_contig_idx
        i == tbw.i
        jj == tbw.j
        sc == contigs[k + 1].scoring
    IN /\ WalkerAtGapCell(TB_INS) =>
            \/ ScoreI(k, i, jj) = ScoreS(k, i - 1, jj) + sc.gap_open + sc.gap_extend
            \/ ScoreI(k, i, jj) = ScoreI(k, i - 1, jj) + sc.gap_extend
       /\ WalkerAtGapCell(TB_DEL) =>
            \/ ScoreD(k, i, jj) = ScoreS(k, i, jj - 1) + sc.gap_open + sc.gap_extend
            \/ ScoreD(k, i, jj) = ScoreD(k, i, jj - 1) + sc.gap_extend

-----------------------------------------------------------------------------
(* Coordinates of the returned alignment *)

\* the positions of the Match, Subst, Ins and Del operations
AlignedOps ==
    OpsOfKind("Match") \cup OpsOfKind("Subst") \cup OpsOfKind("Ins") \cup OpsOfKind("Del")

\* the clips before the first and after the last aligned operation
PrefixClips(kind) == {q \in OpsOfKind(kind) : \A r \in AlignedOps : q < r}
SuffixClips(kind) == {q \in OpsOfKind(kind) : \A r \in AlignedOps : q > r}

\* the length of the clip of the given positions, 0 when there is none
ClipLen(qs) == IF qs = {} THEN 0 ELSE alignment.operations[CHOOSE q \in qs : TRUE].a

\* C20: a returned alignment whose operations are only Xclip, Yclip and Xjump
\* (or none at all) has xstart = xend = ystart = yend = 0; one with a Match,
\* Subst, Ins or Del keeps the coordinates the walker holds, which are those
\* written by the clip arms, or the defaults 0, 0, n and the length of the
\* start contig where no clip arm wrote.
C20_CoordinatesResetIffNothingAligned ==
    pc = "done" =>
        IF AlignedOps = {}
        THEN /\ alignment.xstart = 0 /\ alignment.xend = 0
             /\ alignment.ystart = 0 /\ alignment.yend = 0
        ELSE /\ alignment.xstart = tbw.xstart /\ alignment.xend = tbw.xend
             /\ alignment.ystart = tbw.ystart /\ alignment.yend = tbw.yend
             /\ alignment.xstart = ClipLen(PrefixClips("Xclip"))
             /\ alignment.ystart = ClipLen(PrefixClips("Yclip"))
             /\ alignment.yend = Len(y) - ClipLen(SuffixClips("Yclip"))
             /\ alignment.xend = tbw.xlen - ClipLen(SuffixClips("Xclip"))

\* something was aligned between a prefix and a suffix clip, and the
\* coordinates written by the clip arms were returned
C20_Witness ==
    /\ pc = "done"
    /\ AlignedOps # {}
    /\ alignment.xstart + alignment.ystart > 0
    /\ alignment.yend < Len(y) \/ alignment.xend < tbw.xlen

-----------------------------------------------------------------------------
(* The Flip candidate *)

\* C21: at every column, contig k has a Flip candidate exactly when a contig
\* with its name and the opposite strand is registered; the candidate's idx
\* is that twin, and its donor row, score and length are read off column
\* j - 1 of the twin, where no row is a better donor.  The twin of k's twin
\* is k, and a contig without a twin is never given a jump from another
\* contig of its name.
C21_FlipCandidateIffTwin ==
    pc = "fill_column" =>
        \A k \in 1..NumContigs :
            LET cand == jump_log[k]
                best == best_jump_infos[k]
            IN /\ cand.flip_strand # None <=> Twins(k) # {}
               /\ \A l \in Twins(k) : Twins(l) = {k}
               /\ \A info \in cand.flip_strand :
                     LET t == info.idx + 1
                         twin == contigs[t]
                         pen == twin.scoring.jump_score_same_contig_opposite_strand
                     IN /\ Twins(k) = {t}
                        /\ info.from \in 0..ContigLen(twin)
                        /\ info.score = twin.S[(j - 1) % 2][info.from] + pen
                        /\ info.len = TbGet(twin.traceback, info.from, j - 1).s_len
                        /\ \A i \in 0..ContigLen(twin) :
                              ~BetterInfo(DonorInfo(twin, i, j - 1, pen), info)
               /\ Twins(k) = {} =>
                     \/ best.idx = k - 1
                     \/ contigs[best.idx + 1].name # contigs[k].name

\* a twin pair and a third contig without a twin are registered, and a contig
\* of the pair was given the jump from its twin
C21_Witness ==
    /\ pc = "fill_column"
    /\ \E k, l \in 1..NumContigs :
          /\ Twins(k) # {}
          /\ best_jump_infos[k].idx + 1 \in Twins(k)
          /\ Twins(l) = {}
          /\ jump_log[l].flip_strand = None

-----------------------------------------------------------------------------
(* Range of the walker *)

\* the walker stands on a cell of the matrix of its current contig
WalkerInRange ==
    /\ tbw.cur_contig_idx \in 0..(NumContigs - 1)
    /\ tbw.j \in 0..Len(y)
    /\ tbw.i \in 0..ContigLen(contigs[tbw.cur_contig_idx + 1])

\* C22: during the traceback every cell access and every index update stays
\* in range: at each step 0 <= j <= n and 0 <= i <= m of the current contig,
\* and no access or subtraction fails.
C22_WalkStaysInRange ==
    Started => tbw.state # "panic" /\ WalkerInRange

-----------------------------------------------------------------------------
(* The query is accounted for *)

\* the sum of the lengths of the Yclip operations of the returned alignment
RECURSIVE YclipSum(_)
YclipSum(q) ==
    IF q = 0 THEN 0
    ELSE YclipSum(q - 1)
         + (IF alignment.operations[q].op = "Yclip" THEN alignment.operations[q].a ELSE 0)

\* the number of returned operations that consume one base of the query
QueryOps ==
    Cardinality(OpsOfKind("Match") \cup OpsOfKind("Subst") \cup OpsOfKind("Del"))

\* C23: when the walker reaches START its column index j is 0, so in the
\* returned alignment the number of Match, Subst and Del operations plus the
\* sum of the lengths of the Yclip operations is n, and
\* 0 <= ystart <= yend <= n = ylen.
C23_OperationsCoverTheQuery ==
    pc = "done" =>
        /\ tbw.j = 0
        /\ QueryOps + YclipSum(Len(alignment.operations)) = Len(y)
        /\ 0 <= alignment.ystart
        /\ alignment.ystart <= alignment.yend
        /\ alignment.yend <= Len(y)
        /\ alignment.ylen = Len(y)

\* a returned alignment that clips a part of the query and aligns the rest
C23_Witness ==
    /\ pc = "done"
    /\ Len(y) = MaxQueryLen
    /\ OpsOfKind("Yclip") # {}
    /\ QueryOps > 0
    /\ YclipSum(Len(alignment.operations)) > 0

-----------------------------------------------------------------------------
(* Whose jump score a candidate carries *)

\* the score of the donor row of a candidate, before the jump score is added
DonorScore(info) == contigs[info.idx + 1].S[(j - 1) % 2][info.from]

\* all contigs carry the same three jump scores
SameJumpScores ==
    \A k, l \in 1..NumContigs :
        /\ contigs[k].scoring.jump_score_same_contig_and_strand
              = contigs[l].scoring.jump_score_same_contig_and_strand
        /\ contigs[k].scoring.jump_score_same_contig_opposite_strand
              = contigs[l].scoring.jump_score_same_contig_opposite_strand
        /\ contigs[k].scoring.jump_score_inter_contig
              = contigs[l].scoring.jump_score_inter_contig

\* every candidate of contig k carries the jump score that k's own scoring
\* gives to its kind
ScoredByOwnScoring(k) ==
    LET cand == jump_log[k]
        sc == contigs[k].scoring
    IN /\ cand.same.score = DonorScore(cand.same) + sc.jump_score_same_contig_and_strand
       /\ \A info \in cand.flip_strand :
             info.score = DonorScore(info) + sc.jump_score_same_contig_opposite_strand
       /\ \A info \in cand.inter_contig :
             info.score = DonorScore(info) + sc.jump_score_inter_contig

\* C24: the Same candidate of contig k carries k's own same-strand jump
\* score, while a Flip or an Inter candidate carries the jump score of the
\* scoring of its donor contig (the twin, or the other contig); when all
\* contigs carry the same three jump scores every candidate of k is scored
\* as k's own scoring prescribes.
C24_JumpScoreIsTheDonors ==
    pc = "fill_column" =>
        /\ \A k \in 1..NumContigs :
              LET cand == jump_log[k]
              IN /\ cand.same.idx = k - 1
                 /\ cand.same.score = DonorScore(cand.same)
                       + contigs[k].scoring.jump_score_same_contig_and_strand
                 /\ \A info \in cand.flip_strand :
                       info.score = DonorScore(info)
                          + contigs[info.idx + 1].scoring.jump_score_same_contig_opposite_strand
                 /\ \A info \in cand.inter_contig :
                       info.score = DonorScore(info)
                          + contigs[info.idx + 1].scoring.jump_score_inter_contig
        /\ SameJumpScores => \A k \in 1..NumContigs : ScoredByOwnScoring(k)

\* the contigs carry different jump scores, and a contig has a Flip and an
\* Inter candidate neither of which is scored by its own scoring
C24_Witness ==
    /\ pc = "fill_column"
    /\ \E k \in 1..NumContigs :
          LET cand == jump_log[k]
              sc == contigs[k].scoring
          IN /\ cand.flip_strand # None
             /\ cand.inter_contig # None
             /\ Unwrap(cand.flip_strand).score
                   # DonorScore(Unwrap(cand.flip_strand))
                        + sc.jump_score_same_contig_opposite_strand
             /\ Unwrap(cand.inter_contig).score
                   # DonorScore(Unwrap(cand.inter_contig)) + sc.jump_score_inter_contig

-----------------------------------------------------------------------------
(* The contig coordinates of the returned alignment *)

\* C25: in every returned alignment xlen is the length of the contig of the
\* traceback start cell and 0 <= xend <= xlen; xstart is a row of the contig
\* contig_idx on which the walker stopped, 0 <= xstart <= its length; without
\* a jump the two contigs are the same and xstart <= xend <= xlen.
C25_ContigCoordinatesInRange ==
    pc = "done" =>
        LET start == contigs[tbw.aligner_idx + 1]
            stop == contigs[alignment.contig_idx + 1]
        IN /\ start.contig_idx = tbw.contig_idx
           /\ alignment.xlen = ContigLen(start)
           /\ 0 <= alignment.xend /\ alignment.xend <= alignment.xlen
           /\ 0 <= alignment.xstart /\ alignment.xstart <= ContigLen(stop)
           /\ OpsOfKind("Xjump") = {} =>
                 /\ alignment.contig_idx = tbw.contig_idx
                 /\ alignment.xstart <= alignment.xend

\* the alignment starts on one contig and ends on another of a different
\* length, after a clipped prefix of the first or before a clipped suffix of
\* the second
C25_Witness ==
    /\ pc = "done"
    /\ OpsOfKind("Xjump") # {}
    /\ alignment.contig_idx # tbw.contig_idx
    /\ ContigLen(contigs[alignment.contig_idx + 1]) # alignment.xlen
    /\ alignment.xstart > 0 \/ alignment.xend < alignment.xlen

====
